---------------------------- MODULE Spec2Model ----------------------------
(***************************************************************************)
(* Zoomable one-level treemap (TreeMap + TreemapContainer) of              *)
(* kelsey-n/chart-experiments: value extraction, level projection, the d3  *)
(* treemap layout, the navigation stack, the camera and the d3 transitions *)
(* that commit a drill-down or a drill-up.                                 *)
(*                                                                         *)
(* Numbers: a measure is a tagged value (a finite integer, NaN, +Infinity, *)
(* -Infinity or undefined); a coordinate is an exact rational <<n, d>>     *)
(* with d > 0 in lowest terms (the code's doubles, without rounding        *)
(* error).                                                                 *)
(***************************************************************************)
EXTENDS Integers, Sequences, FiniteSets, TLC

(***************************************************************************)
(* Bounds of the model.                                                    *)
(***************************************************************************)
\* canvas width and height handed to TreeMap (its width / height props)
W == 12
H == 8
\* effect runs (mounts and re-runs of the TreeMap effect) after the first
MaxResets == 2
\* d3 transitions created over a behaviour
MaxTransitions == 5
\* effect runs after the first and transitions created, together
MaxEvents == 6
\* events of TreemapMVP kept in its history
MaxHistory == 5

(***************************************************************************)
(* Program constants.                                                      *)
(***************************************************************************)
startLevel == 2
SyntheticLevel == 3
PaddingInner == 1

(***************************************************************************)
(* Measures.                                                               *)
(***************************************************************************)
Num(n) == [t |-> "num", n |-> n]
NaN == [t |-> "nan", n |-> 0]
PosInf == [t |-> "inf", n |-> 0]
NegInf == [t |-> "ninf", n |-> 0]
Undef == [t |-> "undef", n |-> 0]

\* Number.isFinite(v)
IsFinite(v) == v.t = "num"

\* v > 0 on JavaScript numbers (NaN and undefined compare false)
GtZero(v) == (v.t = "num" /\ v.n > 0) \/ v.t = "inf"

(***************************************************************************)
(* Exact rationals.                                                        *)
(***************************************************************************)
Abs(a) == IF a < 0 THEN -a ELSE a

RECURSIVE GCD(_, _)
GCD(a, b) == IF b = 0 THEN a ELSE GCD(b, a % b)

Rat(n, d) ==
  LET s == IF d < 0 THEN -1 ELSE 1
      g == GCD(Abs(n), Abs(d))
  IN <<(s * n) \div g, (s * d) \div g>>

RInt(n) == <<n, 1>>
RAdd(a, b) == Rat(a[1] * b[2] + b[1] * a[2], a[2] * b[2])
RSub(a, b) == Rat(a[1] * b[2] - b[1] * a[2], a[2] * b[2])
RMul(a, b) == Rat(a[1] * b[1], a[2] * b[2])
RDiv(a, b) == Rat(a[1] * b[2], a[2] * b[1])
RLt(a, b) == a[1] * b[2] < b[1] * a[2]
RLe(a, b) == a[1] * b[2] <= b[1] * a[2]
RMax(a, b) == IF RLt(a, b) THEN b ELSE a
RHalf == <<1, 2>>

RECURSIVE PhiCmp(_, _, _)
\* for a > 0, b > 0: phi > a / b when gt, phi < a / b when ~gt
\* (phi = 1 + 1 / phi, so phi > 1 + c / b iff phi < b / c)
PhiCmp(a, b, gt) ==
  IF a < b THEN gt
  ELSE IF a >= 2 * b THEN ~gt
  ELSE IF a = b THEN gt
  ELSE PhiCmp(b, a - b, ~gt)

\* phi > r for the golden ratio phi = (1 + sqrt 5) / 2 and a rational r
PhiGt(r) == IF r[1] <= 0 THEN TRUE ELSE PhiCmp(r[1], r[2], TRUE)

(***************************************************************************)
(* The raw hierarchy.  A dataset gives, for the node identifiers 1..n, the *)
(* level, the children, the name and the measures; request_hierarchy is    *)
(* the sequence top.  Node 0 is the synthetic root.                        *)
(***************************************************************************)
Codes == {<<"U", "S">>, <<"Z", "Z">>}
US == <<"U", "S">>
NoCountry == [c \in Codes |-> Undef]

\* A > {B > {C, F}, E}, D: every level populated, D and E without children
TopoFull ==
  [top   |-> <<1, 2>>,
   level |-> <<2, 2, 1, 1, 0, 0>>,
   kids  |-> << <<3, 4>>, <<>>, <<5, 6>>, <<>>, <<>>, <<>> >>,
   name  |-> <<"A", "D", "B", "E", "C", "F">>]

\* the chain A > B > C of the scenario
TopoChain ==
  [top   |-> <<1>>,
   level |-> <<2, 1, 0>>,
   kids  |-> << <<2>>, <<3>>, <<>> >>,
   name  |-> <<"A", "B", "C">>]

WithMeasures(topo, glob, country) ==
  [top |-> topo.top, level |-> topo.level, kids |-> topo.kids,
   name |-> topo.name, glob |-> glob, country |-> country,
   state_us |-> [i \in DOMAIN topo.level |-> NoCountry]]

DataPlain ==
  WithMeasures(TopoFull,
    <<Num(3), Num(1), Num(2), Num(1), Num(2), Num(1)>>,
    [i \in 1..6 |-> [c \in Codes |-> IF c = US /\ i \in {1, 3, 5, 6}
                                     THEN Num(1) ELSE Undef]])

DataOdd ==
  WithMeasures(TopoFull,
    <<Num(2), NaN, Num(1), Num(0), PosInf, Num(3)>>,
    [i \in 1..6 |-> [c \in Codes |-> IF c = US
                                     THEN <<Num(1), Num(-1), NegInf, Num(0), Undef, Num(1)>>[i]
                                     ELSE Undef]])

DataChain ==
  WithMeasures(TopoChain,
    <<Num(5), Num(2), Num(2)>>,
    [i \in 1..3 |-> NoCountry])

Datasets == {DataPlain, DataOdd, DataChain}

NodeIds(ds) == DOMAIN ds.level

\* makeSyntheticRoot: level 3, children = request_hierarchy
makeSyntheticRoot == 0

LevelOf(ds, r) == IF r = makeSyntheticRoot THEN SyntheticLevel ELSE ds.level[r]
KidsOf(ds, r) == IF r = makeSyntheticRoot THEN ds.top ELSE ds.kids[r]
NameOf(ds, r) == IF r = makeSyntheticRoot THEN "root" ELSE ds.name[r]

(***************************************************************************)
(* Selector: metric and geo code.  A geo code is a sequence of characters, *)
(* NoGeo is undefined.                                                     *)
(***************************************************************************)
Metrics == {"global", "country", "state_us"}
NoGeo == <<"undefined">>
Truthy(geo) == geo # NoGeo /\ geo # <<>>

Lookup(map, geo) == IF geo \in DOMAIN map THEN map[geo] ELSE Undef

\* transform.ts extractValue: the selected measure if finite, else 0
SelectedMeasure(ds, r, metric, geo) ==
  IF r = makeSyntheticRoot THEN Undef
  ELSE IF metric = "global" THEN ds.glob[r]
  ELSE IF metric = "country" /\ Truthy(geo) THEN Lookup(ds.country[r], geo)
  ELSE IF metric = "state_us" /\ Truthy(geo) THEN Lookup(ds.state_us[r], geo)
  ELSE Num(0)

\* extractValue returning 1 where it has no finite measure
extractValue_one(ds, r, metric, geo) ==
  IF IsFinite(SelectedMeasure(ds, r, metric, geo))
  THEN SelectedMeasure(ds, r, metric, geo) ELSE Num(1)

extractValue(ds, r, metric, geo) ==
  IF IsFinite(SelectedMeasure(ds, r, metric, geo))
  THEN SelectedMeasure(ds, r, metric, geo) ELSE Num(0)

\* the older extractValue (the one toTree uses): the selected measure, 0
\* for one that is missing (?? 0), with no check that it is finite
extractValue_toTree(ds, r, metric, geo) ==
  IF SelectedMeasure(ds, r, metric, geo) = Undef
  THEN Num(0) ELSE SelectedMeasure(ds, r, metric, geo)

RECURSIVE collectAtLevel(_, _, _)
RECURSIVE CollectKids(_, _, _)
\* depth-first, the subtree root first, then each child's subtree in order
\* collectAtLevel that never pushes the subtree's own root
collectAtLevel_kidsOnly(ds, subtree, level) == CollectKids(ds, KidsOf(ds, subtree), level)

collectAtLevel(ds, subtree, level) ==
  (IF LevelOf(ds, subtree) = level THEN <<subtree>> ELSE <<>>)
    \o CollectKids(ds, KidsOf(ds, subtree), level)
CollectKids(ds, ks, level) ==
  IF ks = <<>> THEN <<>>
  ELSE collectAtLevel(ds, Head(ks), level) \o CollectKids(ds, Tail(ks), level)

RECURSIVE hasDescAtLevel(_, _, _)
hasDescAtLevel(ds, r, level) ==
  IF level < 0 THEN FALSE
  ELSE IF LevelOf(ds, r) = level THEN TRUE
  ELSE \E i \in DOMAIN KidsOf(ds, r) : hasDescAtLevel(ds, KidsOf(ds, r)[i], level)

\* the ViewNode buildView makes of one collected node
FiniteOrZero(v) == IF IsFinite(v) THEN v ELSE Num(0)

\* buildView asking hasDescAtLevel for the tile's own level
ViewKid_ownLevel(ds, rn, level, metric, geo) ==
  [name |-> NameOf(ds, rn),
   value |-> FiniteOrZero(extractValue(ds, rn, metric, geo)),
   drill |-> hasDescAtLevel(ds, rn, level),
   raw |-> rn]

ViewKid(ds, rn, level, metric, geo) ==
  [name |-> NameOf(ds, rn),
   value |-> FiniteOrZero(extractValue(ds, rn, metric, geo)),
   drill |-> hasDescAtLevel(ds, rn, level - 1),
   raw |-> rn]

\* buildView keeping the kids of value 0 too
KeepKid_zero(k) == k.value.t = "num" /\ k.value.n >= 0

KeepKid(k) == GtZero(k.value)

\* buildView: the kept children of the view root, in collection order
\* (children: undefined when none is kept is the empty sequence here)
ViewKids(ds, col, level, metric, geo) ==
  [i \in DOMAIN col |-> ViewKid(ds, col[i], level, metric, geo)]

buildView(ds, focus, level, metric, geo) ==
  SelectSeq(ViewKids(ds, collectAtLevel(ds, focus, level), level, metric, geo), KeepKid)

\* transform.ts projectLevel: the TreeNode made of one collected node
ProjKid(ds, rn, metric, geo) ==
  [name |-> NameOf(ds, rn), value |-> extractValue(ds, rn, metric, geo),
   level |-> LevelOf(ds, rn), raw |-> rn]

KeepProj(k) == IsFinite(k.value) /\ GtZero(k.value)

ProjKids(ds, col, metric, geo) == [i \in DOMAIN col |-> ProjKid(ds, col[i], metric, geo)]

projectLevel(ds, subtree, level, metric, geo) ==
  SelectSeq(ProjKids(ds, collectAtLevel(ds, subtree, level), metric, geo), KeepProj)

\* TreemapMVP's canDrillToNextLevel: a raw child at the next lower level
canDrillToNextLevel(ds, rn, level) ==
  \E i \in DOMAIN KidsOf(ds, rn) : LevelOf(ds, KidsOf(ds, rn)[i]) = level - 1

(***************************************************************************)
(* d3.hierarchy(view).sum(...).sort(...) and d3.treemap() with             *)
(* treemapResquarify, paddingInner(1), paddingTop(0).                      *)
(***************************************************************************)
\* the accessor handed to sum: a ViewNode with children (the empty array of
\* a drillable kid included) counts 0, any other its own value
SumAccessor(k) == IF k.drill THEN 0 ELSE k.value.n

\* the hierarchy nodes of the kids: data and summed value
HierarchyKids(view) == [i \in DOMAIN view |-> [data |-> view[i], value |-> SumAccessor(view[i])]]

RECURSIVE InsertDesc(_, _)
\* x goes after every element whose value is >= its own (a stable sort)
InsertDesc(sorted, x) ==
  IF sorted = <<>> THEN <<x>>
  ELSE IF Head(sorted).value >= x.value THEN <<Head(sorted)>> \o InsertDesc(Tail(sorted), x)
  ELSE <<x>> \o sorted

RECURSIVE SortDesc(_, _)
\* sort((a, b) => b.value - a.value): descending, ties in input order
SortDesc(done, todo) ==
  IF todo = <<>> THEN done ELSE SortDesc(InsertDesc(done, Head(todo)), Tail(todo))

RECURSIVE SumVals(_, _, _)
SumVals(vals, from, to) == IF from > to THEN 0 ELSE vals[from] + SumVals(vals, from + 1, to)

MinOf(S) == CHOOSE x \in S : \A y \in S : x <= y

\* squarifyRatio's "find the next non-empty node": index of the node taken
FirstNonEmpty(vals, i0) ==
  LET c == {k \in i0..Len(vals) : vals[k] # 0}
  IN IF c = {} THEN Len(vals) ELSE MinOf(c)

\* max(maxValue / beta, beta / minValue) with beta = sum^2 * alpha and
\* alpha = M / (value * phi) is max(phi * P, Q / phi) with
\* P = mx * value / (sum^2 * M) and Q = sum^2 * M / (value * mn).
\* phi * P(s1, mx1) >= Q(s2, mn2) / phi, i.e. phi^2 = phi + 1 >= Q / P,
\* where T = (M / value)^2
PhiTermGe(s1, mx1, s2, mn2, T) ==
  PhiGt(RSub(RDiv(RMul(RInt(s1 * s1 * s2 * s2), T), RInt(mx1 * mn2)), RInt(1)))

\* the comparison, n1 and n2 telling which term is the maximum of each ratio
RatioGtBy(n1, n2, s1, mn1, mx1, s2, mn2, mx2, T) ==
  IF n1 /\ n2 THEN mx1 * s2 * s2 > mx2 * s1 * s1
  ELSE IF n1 /\ ~n2 THEN PhiTermGe(s1, mx1, s2, mn2, T)
  ELSE IF ~n1 /\ n2 THEN ~PhiTermGe(s2, mx2, s1, mn1, T)
  ELSE s1 * s1 * mn2 > s2 * s2 * mn1

\* ratio of the row (s1, mn1, mx1) > ratio of the row (s2, mn2, mx2)
RatioGt(s1, mn1, mx1, s2, mn2, mx2, T) ==
  RatioGtBy(PhiTermGe(s1, mx1, s1, mn1, T), PhiTermGe(s2, mx2, s2, mn2, T),
            s1, mn1, mx1, s2, mn2, mx2, T)

RECURSIVE RowEnd(_, _, _, _, _, _)

\* the node j (value v) joins the row unless the ratio gets worse
RowTry(vals, j, v, sum, mn, mx, T, ns, nmn, nmx) ==
  IF (IF nmn = 0 THEN TRUE ELSE RatioGt(ns, nmn, nmx, sum, mn, mx, T))
  THEN j
  ELSE RowEnd(vals, j + 1, ns, nmn, nmx, T)

\* "keep adding nodes while the aspect ratio maintains or improves": the
\* index after the row's last node
RowEnd(vals, j, sum, mn, mx, T) ==
  IF j > Len(vals) THEN j
  ELSE RowTry(vals, j, vals[j], sum, mn, mx, T, sum + vals[j],
              IF vals[j] < mn THEN vals[j] ELSE mn,
              IF vals[j] > mx THEN vals[j] ELSE mx)

RECURSIVE DiceFrom(_, _, _, _, _, _, _)
DiceFrom(vals, from, to, x0, y0, y1, k) ==
  IF from > to THEN <<>>
  ELSE <<[x0 |-> x0, y0 |-> y0, x1 |-> RAdd(x0, RMul(RInt(vals[from]), k)), y1 |-> y1]>>
         \o DiceFrom(vals, from + 1, to, RAdd(x0, RMul(RInt(vals[from]), k)), y0, y1, k)

\* the row's nodes side by side from x0 to x1, each from y0 to y1
treemapDice(vals, from, to, x0, y0, x1, y1, rowValue) ==
  DiceFrom(vals, from, to, x0, y0, y1,
           IF rowValue = 0 THEN RInt(0) ELSE RDiv(RSub(x1, x0), RInt(rowValue)))

RECURSIVE SliceFrom(_, _, _, _, _, _, _)
SliceFrom(vals, from, to, x0, y0, x1, k) ==
  IF from > to THEN <<>>
  ELSE <<[x0 |-> x0, y0 |-> y0, x1 |-> x1, y1 |-> RAdd(y0, RMul(RInt(vals[from]), k))]>>
         \o SliceFrom(vals, from + 1, to, x0, RAdd(y0, RMul(RInt(vals[from]), k)), x1, k)

\* the row's nodes one above the other from y0 to y1, each from x0 to x1
treemapSlice(vals, from, to, x0, y0, x1, y1, rowValue) ==
  SliceFrom(vals, from, to, x0, y0, x1,
            IF rowValue = 0 THEN RInt(0) ELSE RDiv(RSub(y1, y0), RInt(rowValue)))

RECURSIVE squarifyRatio(_, _, _, _, _, _, _)

\* the row i0..e-1 of value rowValue is laid out up to the coordinate end
\* (yEnd when diced, xEnd when sliced), the rest in what is left
PlaceRow(vals, i0, e, x0, y0, x1, y1, value, rowValue, dice, end) ==
  IF dice
  THEN treemapDice(vals, i0, e - 1, x0, y0, x1, end, rowValue)
         \o squarifyRatio(vals, e, x0, IF value # 0 THEN end ELSE y0, x1, y1, value - rowValue)
  ELSE treemapSlice(vals, i0, e - 1, x0, y0, end, y1, rowValue)
         \o squarifyRatio(vals, e, IF value # 0 THEN end ELSE x0, y0, x1, y1, value - rowValue)

\* row.dice = dx < dy; value ? y0 += dy * sumValue / value : y1 (x alike)
SplitRow(vals, i0, e, x0, y0, x1, y1, value, rowValue, dx, dy) ==
  PlaceRow(vals, i0, e, x0, y0, x1, y1, value, rowValue, RLt(dx, dy),
           IF RLt(dx, dy)
           THEN IF value # 0 THEN RAdd(y0, RDiv(RMul(dy, RInt(rowValue)), RInt(value))) ELSE y1
           ELSE IF value # 0 THEN RAdd(x0, RDiv(RMul(dx, RInt(rowValue)), RInt(value))) ELSE x1)

\* T = (max(dy / dx, dx / dy) / value)^2
RowT(dx, dy, value) ==
  RDiv(RMul(RMax(RDiv(dy, dx), RDiv(dx, dy)), RMax(RDiv(dy, dx), RDiv(dx, dy))),
       RInt(value * value))

\* k: the first non-empty node from i0 (the last node when all are empty)
RowFrom(vals, i0, k, x0, y0, x1, y1, value, dx, dy) ==
  SplitRow(vals, i0,
           IF vals[k] = 0 THEN k + 1
           ELSE RowEnd(vals, k + 1, vals[k], vals[k], vals[k], RowT(dx, dy, value)),
           x0, y0, x1, y1, value,
           IF vals[k] = 0 THEN 0
           ELSE SumVals(vals, k, RowEnd(vals, k + 1, vals[k], vals[k], vals[k],
                                        RowT(dx, dy, value)) - 1),
           dx, dy)

\* the rectangles of the nodes i0.. in the region left, value = the value left
squarifyRatio(vals, i0, x0, y0, x1, y1, value) ==
  IF i0 > Len(vals) THEN <<>>
  ELSE RowFrom(vals, i0, FirstNonEmpty(vals, i0), x0, y0, x1, y1, value,
               RSub(x1, x0), RSub(y1, y0))

\* if (x1 < x0) x0 = x1 = (x0 + x1) / 2
Collapse(a0, a1) ==
  IF RLt(a1, a0) THEN <<RMul(RAdd(a0, a1), RHalf), RMul(RAdd(a0, a1), RHalf)>> ELSE <<a0, a1>>

PositionedRect(xs, ys) == [x0 |-> xs[1], x1 |-> xs[2], y0 |-> ys[1], y1 |-> ys[2]]

\* treemap's positionNode for a child: shrink by half the inner padding and
\* collapse an inverted side to its middle
positionNode(r, p) ==
  PositionedRect(Collapse(RAdd(r.x0, p), RSub(r.x1, p)), Collapse(RAdd(r.y0, p), RSub(r.y1, p)))

HalfPadding == Rat(PaddingInner, 2)

\* treemap(h): the root is [0, w] x [0, h]; its children are tiled into the
\* root widened by half the inner padding (no outer padding)
TileRoot(vals, w, h) ==
  squarifyRatio(vals, 1, RSub(RInt(0), HalfPadding), RSub(RInt(0), HalfPadding),
                RAdd(RInt(w), HalfPadding), RAdd(RInt(h), HalfPadding),
                SumVals(vals, 1, Len(vals)))

PositionedNodes(nodes, rects) ==
  [i \in DOMAIN nodes |->
     [data |-> nodes[i].data, value |-> nodes[i].value,
      rect |-> positionNode(rects[i], HalfPadding)]]

LayoutOfSorted(nodes, level, w, h) ==
  [level |-> level,
   children |-> PositionedNodes(nodes, TileRoot([i \in DOMAIN nodes |-> nodes[i].value], w, h))]

\* layoutOneLevel: the positioned root's children, sorted; the root itself
\* is [0, w] x [0, h].  level is the level the view was built for (its name
\* is level-<level>).
layoutOneLevel(view, level, w, h) ==
  LayoutOfSorted(SortDesc(<<>>, HierarchyKids(view)), level, w, h)

RescaledBy(nextChildren, parent, sx, sy) ==
  [i \in DOMAIN nextChildren |->
     [x0 |-> RAdd(parent.x0, RMul(nextChildren[i].rect.x0, sx)),
      x1 |-> RAdd(parent.x0, RMul(nextChildren[i].rect.x1, sx)),
      y0 |-> RAdd(parent.y0, RMul(nextChildren[i].rect.y0, sy)),
      y1 |-> RAdd(parent.y0, RMul(nextChildren[i].rect.y1, sy)),
      name |-> nextChildren[i].data.name,
      value |-> nextChildren[i].value]]

\* rescaleChildrenInto: child rectangles of a 0..w x 0..h layout mapped
\* linearly into the rectangle parent
rescaleChildrenInto(nextChildren, parent, w, h) ==
  RescaledBy(nextChildren, parent,
             RDiv(RSub(parent.x1, parent.x0), RInt(w)),
             RDiv(RSub(parent.y1, parent.y0), RInt(h)))

(***************************************************************************)
(* wrapLines.  A text is a sequence of characters, a line too.             *)
(***************************************************************************)
Ellipsis == "..."
IsSpace(ch) == ch \in {" ", "\t"}

\* text.split(/\s+/): cur is the piece being read, acc the pieces before
\* it, inSpace tells that the character before was white space
RECURSIVE SplitFrom(_, _, _, _)
SplitFrom(text, cur, acc, inSpace) ==
  IF text = <<>> THEN Append(acc, cur)
  ELSE IF IsSpace(Head(text))
       THEN IF inSpace THEN SplitFrom(Tail(text), cur, acc, TRUE)
            ELSE SplitFrom(Tail(text), <<>>, Append(acc, cur), TRUE)
       ELSE SplitFrom(Tail(text), Append(cur, Head(text)), acc, FALSE)

Split(text) == SplitFrom(text, <<>>, <<>>, FALSE)

\* .filter(Boolean)
NonEmptyWords(words) == SelectSeq(words, LAMBDA word : word # <<>>)

\* pieces.join(" ").length
RECURSIVE JoinLength(_)
JoinLength(pieces) ==
  IF pieces = <<>> THEN 0
  ELSE IF Len(pieces) = 1 THEN Len(pieces[1])
  ELSE Len(Head(pieces)) + 1 + JoinLength(Tail(pieces))

\* Math.max(1, Math.floor((w - 8) / (fontPx * 0.6)))
MaxChars(w, fontPx) ==
  IF ((w - 8) * 10) \div (fontPx * 6) >= 1 THEN ((w - 8) * 10) \div (fontPx * 6) ELSE 1

\* line ? line + " " + word : word
TestLine(line, word) == IF line # <<>> THEN line \o <<" ">> \o word ELSE word

\* the for loop with its break: the line being filled and the lines pushed
RECURSIVE WrapLoop(_, _, _, _, _)
WrapLoop(words, line, lines, maxChars, maxLines) ==
  IF words = <<>> THEN [line |-> line, lines |-> lines]
  ELSE IF Len(TestLine(line, Head(words))) <= maxChars
       THEN WrapLoop(Tail(words), TestLine(line, Head(words)), lines, maxChars, maxLines)
       ELSE IF Len(lines) + 1 = maxLines - 1
            THEN [line |-> Head(words), lines |-> Append(lines, line)]
            ELSE WrapLoop(Tail(words), Head(words), Append(lines, line), maxChars, maxLines)

\* if (line && lines.length < maxLines) lines.push(line)
PushLast(r, maxLines) ==
  IF r.line # <<>> /\ Len(r.lines) < maxLines THEN Append(r.lines, r.line) ELSE r.lines

\* the ellipsis on the last line when the lines hold less than the words
WithEllipsis(lines, words, maxLines) ==
  IF Len(lines) = maxLines /\ JoinLength(words) > JoinLength(lines)
  THEN [lines EXCEPT ![maxLines] = Append(@, Ellipsis)]
  ELSE lines

WrapWords(words, maxChars, maxLines) ==
  WithEllipsis(PushLast(WrapLoop(words, <<>>, <<>>, maxChars, maxLines), maxLines),
               words, maxLines)

\* wrapLines of src/charts/TreeMap.tsx: text.split(/\s+/) keeps empty words
wrapLines_TreeMap(text, w, fontPx, maxLines) ==
  WrapWords(Split(text), MaxChars(w, fontPx), maxLines)

\* wrapLines of TreeMap: (text || "").split(/\s+/).filter(Boolean)
wrapLines(text, w, fontPx, maxLines) ==
  WrapWords(NonEmptyWords(Split(text)), MaxChars(w, fontPx), maxLines)

\* the characters of a node name: the datasets' names have one character
Chars(nm) == IF nm = "root" THEN <<"r", "o", "o", "t">> ELSE <<nm>>

\* buildView: the view root's name, `level-${level}`
ViewRootName(level) == <<"l", "e", "v", "e", "l", "-", ToString(level)>>

\* name(d) of the root d of a one-level layout: d.ancestors() is d alone
name(layout) == ViewRootName(layout.level)

\* labelLines(d, w) of the header node d, the root of layout, without the
\* value line that follows the name lines
labelLines(layout, w, currentLayout) ==
  IF layout = currentLayout THEN <<name(layout)>>
  ELSE wrapLines(ViewRootName(layout.level), w, 10, 2)

(***************************************************************************)
(* The camera: x = d3.scaleLinear().rangeRound([0, W]).domain([a, b]) and  *)
(* y alike.                                                                *)
(***************************************************************************)
\* Math.round of a rational: the nearest integer, a half going up
Round(r) == (2 * r[1] + r[2]) \div (2 * r[2])

\* the scale of domain [a, b] and range [0, range] at v, unclamped; a
\* domain of one point maps every v to the middle of the range
scaleLinearRound(a, b, range, v) ==
  IF a = b THEN Round(Rat(range, 2))
  ELSE Round(RMul(RDiv(RSub(v, a), RSub(b, a)), RInt(range)))

\* x, y, width and height given to a rectangle r under the camera cam
ScreenRect(r, cam) ==
  [x |-> scaleLinearRound(cam.x0, cam.x1, W, r.x0),
   y |-> scaleLinearRound(cam.y0, cam.y1, H, r.y0),
   width |-> scaleLinearRound(cam.x0, cam.x1, W, r.x1)
               - scaleLinearRound(cam.x0, cam.x1, W, r.x0),
   height |-> scaleLinearRound(cam.y0, cam.y1, H, r.y1)
                - scaleLinearRound(cam.y0, cam.y1, H, r.y0)]

\* the attributes the overlay transition ends on: the overlay rectangles
\* under the camera set before the transition was created
OverlayEnd(overlayRects, cam) ==
  [i \in DOMAIN overlayRects |-> ScreenRect(overlayRects[i], cam)]

\* position(group, root) for the tiles of root under the camera cam
position(layout, cam) ==
  [i \in DOMAIN layout.children |-> ScreenRect(layout.children[i].rect, cam)]

(***************************************************************************)
(* TreemapContainer: the geo code typed by the user.                       *)
(***************************************************************************)
Upper == [c \in {" ", "u", "s", "z", "U", "S", "Z"} |->
            IF c = "u" THEN "U" ELSE IF c = "s" THEN "S" ELSE IF c = "z" THEN "Z" ELSE c]

RECURSIVE TrimLeft(_)
TrimLeft(str) == IF str # <<>> /\ Head(str) = " " THEN TrimLeft(Tail(str)) ELSE str

RECURSIVE TrimRight(_)
TrimRight(str) ==
  IF str # <<>> /\ str[Len(str)] = " " THEN TrimRight(SubSeq(str, 1, Len(str) - 1)) ELSE str

\* e.target.value.trim().toUpperCase()
NormalizeGeo(str) ==
  LET t == TrimRight(TrimLeft(str)) IN [i \in DOMAIN t |-> Upper[t[i]]]

\* what the user can leave in the code input after one change
GeoInputs == {<<>>, <<" ">>, <<"u", "s">>, <<"U", "S">>, <<"z", "z", " ">>}

\* geoCode ?? ""
OrEmpty(geo) == IF geo = NoGeo THEN <<>> ELSE geo

\* the React key of the TreeMap element: `${metric}:${geoCode ?? ""}`
KeyOf(m, geo) == <<m, OrEmpty(geo)>>

(***************************************************************************)
(* State.                                                                  *)
(*   raw       the hierarchy handed to TreemapContainer                    *)
(*   metric, geoCode   TreemapContainer's state                            *)
(*   closures  one record per run of TreeMap's effect, in order; the last  *)
(*             one is the live one.  svg: the <svg> element it draws into; *)
(*             metric, geo: the props it closed over; stack, current, cam  *)
(*             (the domains of x and y), base: its local variables         *)
(*   dom       per <svg> element, its children in document order           *)
(*   pending   the d3 transitions on <svg> elements, in creation order     *)
(*   nEl, nTr  elements and transitions created so far                     *)
(*   lastEvent the event handled last and the handling closure before it   *)
(*   proj      the last call of the level projection on its own: the       *)
(*             arguments, what projectLevel and buildView returned and     *)
(*             what the two extractValue return for the focus node         *)
(*   mvp       TreemapMVP under the static TreemapContainer: its prop      *)
(*             initialLevel, its state focusRaw and level, and hist, the   *)
(*             last events handled with the focus and level after each     *)
(* A closure also records, in done, the last "end" listener that ran in    *)
(* it: the kind of the transition and the stack and current frame when     *)
(* the transition was requested.                                           *)
(***************************************************************************)
VARIABLES raw, metric, geoCode, closures, dom, pending, nEl, nTr, lastEvent, proj, mvp, wrap

vars == <<raw, metric, geoCode, closures, dom, pending, nEl, nTr, lastEvent, proj, mvp, wrap>>

fullRect == [x0 |-> RInt(0), y0 |-> RInt(0), x1 |-> RInt(W), y1 |-> RInt(H)]

NoLayout == [level |-> -1, children |-> <<>>]

\* buildFrame of the effect run with props m, geo
buildFrame(focus, level, enteredRect, m, geo) ==
  [focus |-> focus, level |-> level,
   layout |-> layoutOneLevel(buildView(raw, focus, level, m, geo), level, W, H),
   enteredRect |-> enteredRect]

\* a child of an <svg>: the background rect, a tile group (render) or an
\* overlay group.  pe: pointer events reach it; rm: the transition whose end
\* removes it (0: none)
Element(id, kind, gen, layout, rects) ==
  [id |-> id, kind |-> kind, gen |-> gen, layout |-> layout, rects |-> rects,
   pe |-> TRUE, rm |-> 0, header |-> <<>>]

\* render(group, root): the tile group of the layout root with its header
\* label, while the closure's current frame is current
render(id, gen, layout, current) ==
  [Element(id, "base", gen, layout, <<>>) EXCEPT
     !.header = labelLines(layout, W, current.layout)]

Live == Len(closures)
LiveSvg == closures[Live].svg

InDom(svg, id) == \E k \in DOMAIN dom[svg] : dom[svg][k].id = id

RemoveEl(els, Gone(_)) == SelectSeq(els, LAMBDA e : ~Gone(e))

\* an effect run whose camera keeps the domain of the run before
EffectRun_keepCamera(svg, m, geo, gen, firstEl) ==
  LET frame == buildFrame(makeSyntheticRoot, startLevel, fullRect, m, geo)
  IN [closure |-> [svg |-> svg, metric |-> m, geo |-> geo, stack |-> <<frame>>,
                   current |-> frame,
                   cam |-> IF gen > 1 THEN closures[gen - 1].cam ELSE fullRect,
                   base |-> firstEl + 1, done |-> <<>>],
      children |-> <<Element(firstEl, "bg", gen, NoLayout, <<>>),
                     render(firstEl + 1, gen, frame.layout, frame)>>]

\* the effect body up to the first render: stack, current, camera, the
\* background rect lowered to the front and the base group
EffectRun(svg, m, geo, gen, firstEl) ==
  LET frame == buildFrame(makeSyntheticRoot, startLevel, fullRect, m, geo)
  IN [closure |-> [svg |-> svg, metric |-> m, geo |-> geo, stack |-> <<frame>>,
                   current |-> frame, cam |-> fullRect, base |-> firstEl + 1,
                   done |-> <<>>],
      children |-> <<Element(firstEl, "bg", gen, NoLayout, <<>>),
                     render(firstEl + 1, gen, frame.layout, frame)>>]

\* type: the event; gen: the closure that handled it; acc: it got past the
\* handler's guard; tr: the transition created or ended; tile: the tile
\* clicked; t: the transition ended; pre: the handling closure before it
Event(type, gen, acc, tr, tile, t) ==
  [type |-> type, gen |-> gen, acc |-> acc, tr |-> tr, tile |-> tile, t |-> t,
   pre |-> IF gen \in DOMAIN closures THEN <<closures[gen]>> ELSE <<>>]

NoEvent == [type |-> "mount", gen |-> 1, acc |-> TRUE, tr |-> 0, tile |-> <<>>, t |-> <<>>,
            pre |-> <<>>]

NoProj == [focus |-> makeSyntheticRoot, level |-> -1, metric |-> "global", geo |-> NoGeo,
           tree |-> <<>>, view |-> <<>>, value |-> Num(0), valueToTree |-> Num(0)]

\* TreemapMVP right after its mount with the prop initialLevel
MvpMount(initialLevel) ==
  [initialLevel |-> initialLevel, focusRaw |-> makeSyntheticRoot, level |-> initialLevel,
   hist |-> <<[ev |-> "mount", focus |-> makeSyntheticRoot, level |-> initialLevel]>>]

\* the arguments of a call of wrapLines that has not returned yet
WrapInput(text, w, fontPx) ==
  [text |-> text, w |-> w, fontPx |-> fontPx, called |-> FALSE,
   lines |-> <<>>, linesTreeMap |-> <<>>]

Init ==
  /\ mvp = MvpMount(startLevel)
  /\ wrap = WrapInput(<<>>, 0, 10)
  /\ raw \in Datasets
  /\ metric = "global"
  /\ geoCode = NoGeo
  /\ LET run == EffectRun(1, "global", NoGeo, 1, 1)
     IN /\ closures = <<run.closure>>
        /\ dom = <<run.children>>
  /\ pending = <<>>
  /\ nEl = 2
  /\ nTr = 0
  /\ lastEvent = NoEvent
  /\ proj = NoProj

(***************************************************************************)
(* zoomin and zoomout of the closure g.                                    *)
(***************************************************************************)
\* base.attr("pointer-events", "none") and, with group0.transition(tt)
\* ... .remove(), the removal at the end of transition tid
FadeOut(els, baseId, tid) ==
  [k \in DOMAIN els |-> IF els[k].id = baseId
                        THEN [els[k] EXCEPT !.pe = FALSE, !.rm = tid]
                        ELSE els[k]]

\* the guard of zoomin: it returns at once
zoominReturns(c, d) == c.current.level <= 0

\* zoomin(d) past its guard
zoominTo(g, d, nextLevel) ==
  LET c == closures[g]
      nextFocus == d.data.raw
      nextLayout == layoutOneLevel(buildView(raw, nextFocus, nextLevel, c.metric, c.geo),
                                   nextLevel, W, H)
      clickedRect == d.rect
      overlayRects == rescaleChildrenInto(nextLayout.children, clickedRect, W, H)
      tid == nTr + 1
      ovId == nEl + 1
      overlay == Element(ovId, "overlay", g, NoLayout, overlayRects)
  IN /\ dom' = [dom EXCEPT ![c.svg] = Append(FadeOut(@, c.base, tid), overlay)]
     /\ closures' = [closures EXCEPT ![g].cam = clickedRect]
     /\ pending' = Append(pending,
          [id |-> tid, svg |-> c.svg, gen |-> g, kind |-> "in", state |-> "running",
           \* group0.transition(tt) throws on a group that left the document,
           \* before .on("end", ...) is reached
           cb |-> InDom(c.svg, c.base),
           overlay |-> ovId,
           frame |-> [focus |-> nextFocus, level |-> nextLevel,
                      layout |-> nextLayout, enteredRect |-> clickedRect],
           tile |-> <<d>>,
           ovEnd |-> OverlayEnd(overlayRects, clickedRect),
           from |-> c])
     /\ nEl' = ovId
     /\ nTr' = tid

\* zoomin stepping a level up instead of down
zoomin_levelUp(g, d) == zoominTo(g, d, closures[g].current.level + 1)

\* zoomin past its guard: nextLevel = current.level - 1
zoomin(g, d) == zoominTo(g, d, closures[g].current.level - 1)

\* zoomout without its guard on a stack of one frame
zoomoutReturns_never(c) == Len(c.stack) <= 0

\* the guard of zoomout: it returns at once
zoomoutReturns(c) == Len(c.stack) <= 1

\* zoomout popping the parent frame too
zoomout_twice(g) ==
  LET c == closures[g]
      popped == SubSeq(c.stack, 1, Len(c.stack) - 2)
  IN /\ closures' = [closures EXCEPT ![g].stack = popped]
     /\ UNCHANGED <<dom, pending, nEl, nTr>>

\* zoomout() past its guard.  On a stack of one frame (which the guard
\* excludes) the pop empties the stack and parent.layout throws a TypeError:
\* nothing else of the handler runs.
zoomout(g) ==
  LET c == closures[g]
      leaving == c.stack[Len(c.stack)]
      popped == SubSeq(c.stack, 1, Len(c.stack) - 1)
      parent == popped[Len(popped)]
      overlayRects == rescaleChildrenInto(parent.layout.children, leaving.enteredRect, W, H)
      tid == nTr + 1
      ovId == nEl + 1
      overlay == Element(ovId, "overlay", g, NoLayout, overlayRects)
  IN IF popped = <<>>
     THEN /\ closures' = [closures EXCEPT ![g].stack = popped]
          /\ UNCHANGED <<dom, pending, nEl, nTr>>
     ELSE \* svg.insert("g", "*"): before the first child
          /\ dom' = [dom EXCEPT ![c.svg] = <<overlay>> \o FadeOut(@, c.base, tid)]
          /\ closures' = [closures EXCEPT ![g].stack = popped, ![g].cam = leaving.enteredRect]
          /\ pending' = Append(pending,
               [id |-> tid, svg |-> c.svg, gen |-> g, kind |-> "out", state |-> "running",
                cb |-> InDom(c.svg, c.base),
                overlay |-> ovId,
                frame |-> parent,
                tile |-> <<>>,
                ovEnd |-> OverlayEnd(overlayRects, leaving.enteredRect),
                from |-> c])
          /\ nEl' = ovId
          /\ nTr' = tid

(***************************************************************************)
(* Events.                                                                 *)
(***************************************************************************)
\* render giving every tile the click handler
HasClickHandler_all(d) == TRUE

\* render's filter: the tiles that get the click handler
HasClickHandler(d) == d.data.drill

\* a click on tile i of the tile group at position k of the live <svg>
ClickTile(k, i) ==
  /\ LET e == dom[LiveSvg][k]
     IN /\ e.kind = "base"
        /\ e.pe
        /\ LET d == e.layout.children[i]
               c == closures[e.gen]
               acc == HasClickHandler(d) /\ ~zoominReturns(c, d)
           IN /\ IF acc
                 THEN nTr < MaxTransitions /\ (Live - 1) + nTr < MaxEvents /\ zoomin(e.gen, d)
                 ELSE UNCHANGED <<dom, closures, pending, nEl, nTr>>
              /\ lastEvent' = Event("tile", e.gen, acc, IF acc THEN nTr + 1 ELSE 0,
                                    <<[el |-> e.id, layout |-> e.layout, d |-> d]>>, <<>>)
  /\ UNCHANGED <<raw, metric, geoCode, proj, mvp, wrap>>

\* a click on the background rect of the live <svg>
ClickBg ==
  /\ \E k \in DOMAIN dom[LiveSvg] :
       LET e == dom[LiveSvg][k]
           acc == ~zoomoutReturns(closures[e.gen])
       IN /\ e.kind = "bg"
          /\ IF acc
             THEN nTr < MaxTransitions /\ (Live - 1) + nTr < MaxEvents /\ zoomout(e.gen)
             ELSE UNCHANGED <<dom, closures, pending, nEl, nTr>>
          /\ lastEvent' = Event("bg", e.gen, acc, IF acc THEN nTr + 1 ELSE 0, <<>>, <<>>)
  /\ UNCHANGED <<raw, metric, geoCode, proj, mvp, wrap>>

\* the "end" listener of zoomin without its stack.push(current)
EndCallback_noPush(t) ==
  LET c == closures[t.gen]
      newBase == render(nEl + 1, t.gen, t.frame.layout, c.current)
      kept == RemoveEl(Append(dom[t.svg], newBase),
                       LAMBDA e : e.id = t.overlay \/ e.rm = t.id)
  IN /\ dom' = [dom EXCEPT ![t.svg] = kept]
     /\ closures' = [closures EXCEPT ![t.gen] =
          [c EXCEPT !.cam = fullRect, !.base = nEl + 1, !.current = t.frame,
                    !.done = <<[kind |-> t.kind, id |-> t.id,
                                stack |-> t.from.stack, current |-> t.from.current]>>]]
     /\ nEl' = nEl + 1

\* the "end" listener rendering the outgoing frame's layout again
EndCallback_renderCurrent(t) ==
  LET c == closures[t.gen]
      newBase == render(nEl + 1, t.gen, c.current.layout, c.current)
      kept == RemoveEl(Append(dom[t.svg], newBase),
                       LAMBDA e : e.id = t.overlay \/ e.rm = t.id)
  IN /\ dom' = [dom EXCEPT ![t.svg] = kept]
     /\ closures' = [closures EXCEPT ![t.gen] =
          [c EXCEPT !.cam = fullRect, !.base = nEl + 1, !.current = t.frame,
                    !.stack = IF t.kind = "in" THEN Append(c.stack, t.frame) ELSE c.stack,
                    !.done = <<[kind |-> t.kind, id |-> t.id,
                                stack |-> t.from.stack, current |-> t.from.current]>>]]
     /\ nEl' = nEl + 1

\* the "end" listener without x.domain([0, W]) and y.domain([0, H])
EndCallback_keepCamera(t) ==
  LET c == closures[t.gen]
      newBase == render(nEl + 1, t.gen, t.frame.layout, c.current)
      kept == RemoveEl(Append(dom[t.svg], newBase),
                       LAMBDA e : e.id = t.overlay \/ e.rm = t.id)
  IN /\ dom' = [dom EXCEPT ![t.svg] = kept]
     /\ closures' = [closures EXCEPT ![t.gen] =
          [c EXCEPT !.base = nEl + 1, !.current = t.frame,
                    !.stack = IF t.kind = "in" THEN Append(c.stack, t.frame) ELSE c.stack,
                    !.done = <<[kind |-> t.kind, id |-> t.id,
                                stack |-> t.from.stack, current |-> t.from.current]>>]]
     /\ nEl' = nEl + 1

\* the "end" listener of zoomin / zoomout, then the end of the transitions
\* of the same id on the groups (the .remove() of group0)
EndCallback(t) ==
  LET c == closures[t.gen]
      newBase == render(nEl + 1, t.gen, t.frame.layout, c.current)
      kept == RemoveEl(Append(dom[t.svg], newBase),
                       LAMBDA e : e.id = t.overlay \/ e.rm = t.id)
  IN /\ dom' = [dom EXCEPT ![t.svg] = kept]
     /\ closures' = [closures EXCEPT ![t.gen] =
          [c EXCEPT !.cam = fullRect, !.base = nEl + 1, !.current = t.frame,
                    !.stack = IF t.kind = "in" THEN Append(c.stack, t.frame) ELSE c.stack,
                    !.done = <<[kind |-> t.kind, id |-> t.id,
                                stack |-> t.from.stack, current |-> t.from.current]>>]]
     /\ nEl' = nEl + 1

\* the oldest transition reaches its end
TransitionEnd ==
  /\ pending # <<>>
  /\ LET t == Head(pending)
         ran == t.state = "running" /\ t.cb
     IN /\ IF ran
           THEN EndCallback(t)
           ELSE /\ dom' = [dom EXCEPT ![t.svg] = RemoveEl(@, LAMBDA e : e.rm = t.id)]
                /\ UNCHANGED <<closures, nEl>>
        /\ lastEvent' = Event("end", t.gen, ran, t.id, <<>>, <<t>>)
  /\ pending' = Tail(pending)
  /\ UNCHANGED <<raw, metric, geoCode, nTr, proj, mvp, wrap>>

\* a later transition on the same <svg> starts and interrupts transition i:
\* its "end" listener will not run
TransitionInterrupt(i) ==
  /\ pending[i].state = "running"
  /\ \E j \in DOMAIN pending : j > i /\ pending[j].svg = pending[i].svg
  /\ pending' = [pending EXCEPT ![i].state = "interrupted"]
  /\ lastEvent' = Event("interrupt", pending[i].gen, TRUE, pending[i].id, <<>>, <<>>)
  /\ UNCHANGED <<raw, metric, geoCode, closures, dom, nEl, nTr, proj, mvp, wrap>>

\* an effect run that kept the stack and the current frame of the run before
Rerender_keepStack(m, geo, type) ==
  LET gen == Live + 1
      svg == Len(dom) + 1
      run == EffectRun(svg, m, geo, gen, nEl + 1)
  IN /\ closures' = Append(closures, [run.closure EXCEPT !.stack = closures[Live].stack,
                                                         !.current = closures[Live].current])
     /\ dom' = Append(dom, run.children)
     /\ nEl' = nEl + 2
     /\ lastEvent' = Event(type, gen, TRUE, 0, <<>>, <<>>)
     /\ UNCHANGED <<raw, pending, nTr, proj, mvp, wrap>>

\* React renders TreeMap with the props m, geo: under a new key it mounts a
\* new TreeMap with a new <svg>; under the same key the effect of the
\* mounted one runs again (interrupt and remove every child, then set up)
Rerender(m, geo, type) ==
  LET gen == Live + 1
      remount == KeyOf(m, geo) # KeyOf(metric, geoCode)
      svg == IF remount THEN Len(dom) + 1 ELSE LiveSvg
      run == EffectRun(svg, m, geo, gen, nEl + 1)
  IN /\ closures' = Append(closures, run.closure)
     /\ dom' = IF remount THEN Append(dom, run.children)
               ELSE [dom EXCEPT ![svg] = run.children]
     /\ nEl' = nEl + 2
     /\ lastEvent' = Event(type, gen, TRUE, 0, <<>>, <<>>)
     /\ UNCHANGED <<raw, pending, nTr, proj, mvp, wrap>>

\* the metric select changes to m (and, back on global, the container's
\* effect clears the geo code)
SetMetric(m) ==
  /\ m \in Metrics
  /\ m # metric
  /\ Live <= MaxResets
  /\ (Live - 1) + nTr < MaxEvents
  /\ metric' = m
  /\ geoCode' = IF m = "global" THEN NoGeo ELSE geoCode
  /\ Rerender(m, geoCode', "metric")

\* the code input changes to the text inp
SetGeoCode(inp) ==
  /\ inp \in GeoInputs
  /\ metric # "global"
  /\ inp # OrEmpty(geoCode)
  /\ metric' = metric
  /\ geoCode' = NormalizeGeo(inp)
  /\ IF geoCode' = geoCode
     THEN /\ lastEvent' = Event("geo", Live, FALSE, 0, <<>>, <<>>)
          /\ UNCHANGED <<raw, closures, dom, pending, nEl, nTr, proj, mvp, wrap>>
     ELSE Live <= MaxResets /\ (Live - 1) + nTr < MaxEvents /\ Rerender(metric, geoCode', "geo")

Next ==
  \/ \E k \in DOMAIN dom[LiveSvg] : \E i \in DOMAIN dom[LiveSvg][k].layout.children :
       ClickTile(k, i)
  \/ ClickBg
  \/ TransitionEnd
  \/ \E i \in DOMAIN pending : TransitionInterrupt(i)
  \/ \E m \in Metrics : SetMetric(m)
  \/ \E inp \in GeoInputs : SetGeoCode(inp)

Spec == Init /\ [][Next]_vars

\* d3's timer runs every scheduled transition to its end or its interrupt:
\* the oldest transition does not stay pending for ever
SpecFair == Spec /\ WF_vars(TransitionEnd)

(***************************************************************************)
(* The level projection on its own: projectLevel and buildView applied to  *)
(* any node of the hierarchy (the synthetic root included), any level and  *)
(* any selector.                                                           *)
(***************************************************************************)
ProjLevels == -1 .. SyntheticLevel
GeoArgs == {NoGeo, <<>>, <<"U", "S">>, <<"Z", "Z">>, <<"F", "R">>}

Project(focus, level, m, geo) ==
  /\ proj' = [focus |-> focus, level |-> level, metric |-> m, geo |-> geo,
              tree |-> projectLevel(raw, focus, level, m, geo),
              view |-> buildView(raw, focus, level, m, geo),
              value |-> extractValue(raw, focus, m, geo),
              valueToTree |-> extractValue_toTree(raw, focus, m, geo)]
  /\ UNCHANGED <<raw, metric, geoCode, closures, dom, pending, nEl, nTr, lastEvent, mvp, wrap>>

NextProj ==
  \E focus \in NodeIds(raw) \cup {makeSyntheticRoot}, level \in ProjLevels,
     m \in Metrics, geo \in GeoArgs : Project(focus, level, m, geo)

SpecProj == Init /\ [][NextProj]_vars

(***************************************************************************)
(* TreemapMVP under the static TreemapContainer.  metric and geoCode are   *)
(* the container's state and TreemapMVP's props; the tiles are the         *)
(* children of projectLevel(focusRaw, level, metric, geoCode).             *)
(***************************************************************************)
\* initialLevel: 0 as the static TreemapContainer passes it, 2 the default
InitialLevels == {0, startLevel}

\* the tiles TreemapMVP renders for focus and level
MvpTiles(focus, level) == projectLevel(raw, focus, level, metric, geoCode)

\* the last MaxHistory entries of h
Recent(h) == IF Len(h) > MaxHistory THEN SubSeq(h, Len(h) - MaxHistory + 1, Len(h)) ELSE h

MvpEvent(ev, focus, level) ==
  [mvp EXCEPT !.focusRaw = focus, !.level = level,
              !.hist = Recent(Append(mvp.hist, [ev |-> ev, focus |-> focus, level |-> level]))]

\* onClick of tile i: drill when the tile is drillable
MvpClickTile(i) ==
  /\ i \in DOMAIN MvpTiles(mvp.focusRaw, mvp.level)
  /\ mvp' = IF canDrillToNextLevel(raw, MvpTiles(mvp.focusRaw, mvp.level)[i].raw, mvp.level)
            THEN MvpEvent("drill", MvpTiles(mvp.focusRaw, mvp.level)[i].raw, mvp.level - 1)
            ELSE MvpEvent("tile", mvp.focusRaw, mvp.level)
  /\ UNCHANGED <<raw, metric, geoCode, closures, dom, pending, nEl, nTr, lastEvent, proj, wrap>>

\* goUp, on a click on the background rect or on Escape
goUp ==
  /\ mvp' = IF mvp.level < mvp.initialLevel
            THEN MvpEvent("up", mvp.focusRaw, mvp.level + 1)
            ELSE IF mvp.focusRaw # makeSyntheticRoot
                 THEN MvpEvent("up", makeSyntheticRoot, mvp.initialLevel)
                 ELSE MvpEvent("up", mvp.focusRaw, mvp.level)
  /\ UNCHANGED <<raw, metric, geoCode, closures, dom, pending, nEl, nTr, lastEvent, proj, wrap>>

\* the metric select of the static container; its effect clears the code
\* on "global".  TreemapMVP's reset effect depends on data and initialLevel
\* only and does not run
MvpSetMetric(m) ==
  /\ m # metric
  /\ metric' = m
  /\ geoCode' = IF m = "global" THEN NoGeo ELSE geoCode
  /\ mvp' = MvpEvent("metric", mvp.focusRaw, mvp.level)
  /\ UNCHANGED <<raw, closures, dom, pending, nEl, nTr, lastEvent, proj, wrap>>

\* the code input of the static container: trim().toUpperCase()
MvpSetGeoCode(inp) ==
  /\ metric # "global"
  /\ inp # OrEmpty(geoCode)
  /\ NormalizeGeo(inp) # geoCode
  /\ geoCode' = NormalizeGeo(inp)
  /\ mvp' = MvpEvent("geo", mvp.focusRaw, mvp.level)
  /\ UNCHANGED <<raw, metric, closures, dom, pending, nEl, nTr, lastEvent, proj, wrap>>

NextMVP ==
  \/ \E i \in DOMAIN MvpTiles(mvp.focusRaw, mvp.level) : MvpClickTile(i)
  \/ goUp
  \/ \E m \in Metrics : MvpSetMetric(m)
  \/ \E inp \in GeoInputs : MvpSetGeoCode(inp)

\* TreemapMVP mounted with either initialLevel
InitMVP ==
  /\ \E il \in InitialLevels : mvp = MvpMount(il)
  /\ wrap = WrapInput(<<>>, 0, 10)
  /\ raw \in Datasets
  /\ metric = "global"
  /\ geoCode = NoGeo
  /\ closures = <<>>
  /\ dom = <<>>
  /\ pending = <<>>
  /\ nEl = 0
  /\ nTr = 0
  /\ lastEvent = NoEvent
  /\ proj = NoProj

SpecMVP == InitMVP /\ [][NextMVP]_vars

(***************************************************************************)
(* wrapLines on its own: applied to every text of at most MaxTextLen       *)
(* characters made of a letter and the space, every width up to MaxWidth   *)
(* and the font sizes the two files use.                                   *)
(***************************************************************************)
MaxTextLen == 6
MaxWidth == 40

RECURSIVE TextsOfLen(_)
TextsOfLen(n) ==
  IF n = 0 THEN {<<>>}
  ELSE {Append(t, ch) : t \in TextsOfLen(n - 1), ch \in {"a", " "}}

LabelTexts == UNION {TextsOfLen(n) : n \in 0..MaxTextLen}
LabelWidths == 0..MaxWidth
FontSizes == {10, 11}

\* the two wrapLines return, called with maxLines = 2
Wrap ==
  /\ ~wrap.called
  /\ wrap' = [wrap EXCEPT !.called = TRUE,
                          !.lines = wrapLines(wrap.text, wrap.w, wrap.fontPx, 2),
                          !.linesTreeMap = wrapLines_TreeMap(wrap.text, wrap.w, wrap.fontPx, 2)]
  /\ UNCHANGED <<raw, metric, geoCode, closures, dom, pending, nEl, nTr, lastEvent, proj, mvp>>

NextWrap == Wrap

InitWrap ==
  /\ \E text \in LabelTexts, w \in LabelWidths, fontPx \in FontSizes :
       wrap = WrapInput(text, w, fontPx)
  /\ raw = DataChain
  /\ metric = "global"
  /\ geoCode = NoGeo
  /\ closures = <<>>
  /\ dom = <<>>
  /\ pending = <<>>
  /\ nEl = 0
  /\ nTr = 0
  /\ lastEvent = NoEvent
  /\ proj = NoProj
  /\ mvp = MvpMount(startLevel)

SpecWrap == InitWrap /\ [][NextWrap]_vars

(***************************************************************************)
(* Properties.  For the event handled last, lastEvent.pre[1] is the        *)
(* handling closure before the event and closures[lastEvent.gen] the same  *)
(* closure after it.                                                       *)
(***************************************************************************)
Last(seq) == seq[Len(seq)]
Front(seq) == SubSeq(seq, 1, Len(seq) - 1)

\* a transition of the handling closure, other than the one the event
\* created, is running and its "end" listener has yet to run
InFlight ==
  \E i \in DOMAIN pending :
    /\ pending[i].gen = lastEvent.gen
    /\ pending[i].state = "running"
    /\ pending[i].cb
    /\ pending[i].id # lastEvent.tr

\* C1: the navigation stack of every run of the TreeMap effect holds at
\* least one frame in every reachable state, whatever tile clicks,
\* background clicks and completions happened, clicks during an animation
\* included.
C1_StackNeverEmpty == \A g \in DOMAIN closures : Len(closures[g].stack) >= 1

\* a background click that arrived while an animation was in flight and
\* popped the stack down to its last frame
C1_Witness ==
  /\ lastEvent.type = "bg"
  /\ lastEvent.acc
  /\ InFlight
  /\ Len(closures[lastEvent.gen].stack) = 1

C3_DrillUpPopsCurrent ==
  /\ (lastEvent.type = "bg" /\ Len(lastEvent.pre[1].stack) > 1)
     => /\ closures[lastEvent.gen].stack = Front(lastEvent.pre[1].stack)
        /\ Last(lastEvent.pre[1].stack) = lastEvent.pre[1].current
  /\ (lastEvent.type = "end" /\ lastEvent.acc /\ lastEvent.t[1].kind = "out")
     => /\ closures[lastEvent.gen].current = Last(closures[lastEvent.gen].stack)
        /\ closures[lastEvent.gen].current = lastEvent.t[1].frame

\* C4: a background click while the stack has exactly one frame changes
\* nothing: stack, current frame, camera, rendered groups are unchanged and
\* no transition is created.
C4_DrillUpAtRootNoOp ==
  [][(lastEvent'.type = "bg" /\ Len(closures[lastEvent'.gen].stack) = 1)
     => UNCHANGED <<closures, dom, pending, nEl, nTr>>]_vars

\* a background click that was ignored on the root frame the closure came
\* back to after a drill-down and a drill-up
C4_Witness ==
  /\ lastEvent.type = "bg"
  /\ ~lastEvent.acc
  /\ lastEvent.tr = 0
  /\ Len(lastEvent.pre[1].stack) = 1
  /\ lastEvent.pre[1].done # <<>>
  /\ lastEvent.pre[1].done[1].kind = "out"

\* C5: a click on a tile is ignored (stack, current frame and camera
\* unchanged, no transition created) whenever the current depth is <= 0 or
\* the tile is not drillable.
C5_DrillDownIgnored ==
  [][(/\ lastEvent'.type = "tile"
      /\ \/ closures[lastEvent'.gen].current.level <= 0
         \/ ~lastEvent'.tile[1].d.data.drill)
     => UNCHANGED <<closures, dom, pending, nEl, nTr>>]_vars

\* a click on a tile of a frame of depth 0 that was ignored
C5_Witness ==
  /\ lastEvent.type = "tile"
  /\ ~lastEvent.acc
  /\ lastEvent.tr = 0
  /\ lastEvent.pre[1].current.level = 0
  /\ ~lastEvent.tile[1].d.data.drill
  /\ closures[lastEvent.gen] = lastEvent.pre[1]

\* C6: while a drill animation is in flight, a tile click or a background
\* click changes neither the stack nor the camera and creates no transition.
C6_RequestsIgnoredInFlight ==
  (lastEvent.type \in {"tile", "bg"} /\ InFlight)
  => /\ closures[lastEvent.gen] = lastEvent.pre[1]
     /\ lastEvent.tr = 0

\* C7: after the metric or the geo code given to TreeMap changed, the stack
\* has one frame, with focus = the synthetic root and depth = 2, whatever
\* the stack was before the change.
C7_ResetOnSelectorChange ==
  (lastEvent.type \in {"metric", "geo"} /\ lastEvent.acc)
  => /\ Len(closures[Live].stack) = 1
     /\ closures[Live].stack[1].focus = makeSyntheticRoot
     /\ closures[Live].stack[1].level = 2
     /\ closures[Live].current = closures[Live].stack[1]

\* a change of the selector while the stack of the run before had three
\* frames
C7_Witness ==
  /\ lastEvent.type \in {"metric", "geo"}
  /\ lastEvent.acc
  /\ Live >= 2
  /\ Len(closures[Live - 1].stack) = 3
  /\ Len(closures[Live].stack) = 1

\* C8: the "end" listener of a transition created before a change of the
\* metric or the geo code never takes effect after the change: it pushes
\* no frame, makes none current and renders none.
C8_NoCallbackAfterChange ==
  (lastEvent.type = "end" /\ lastEvent.gen < Live)
  => /\ ~lastEvent.acc
     /\ closures[lastEvent.gen] = lastEvent.pre[1]

\* C9: when a drill-up requested after a completed drill-down has completed
\* (no other completion in between), the stack, the current frame (focus,
\* depth, tiles, layout) and the rendered tiles are those of the moment
\* the drill-down was requested.
C9_DownUpRestores ==
  (/\ lastEvent.type = "end"
   /\ lastEvent.acc
   /\ lastEvent.t[1].kind = "out"
   /\ lastEvent.pre[1].done # <<>>
   /\ lastEvent.pre[1].done[1].kind = "in"
   /\ lastEvent.t[1].from.done = lastEvent.pre[1].done)
  => LET c == closures[lastEvent.gen]
         before == lastEvent.pre[1].done[1]
     IN /\ c.stack = before.stack
        /\ c.current = before.current
        /\ \E k \in DOMAIN dom[c.svg] :
             /\ dom[c.svg][k].id = c.base
             /\ dom[c.svg][k].layout = before.current.layout

\* C10: every tile projectLevel and buildView return, for any focus node,
\* level and selector, has a finite value > 0, and so has the measure of
\* its source node: a node whose measure is missing, not finite or <= 0
\* gives no tile.
C10_TilesPositive ==
  /\ \A i \in DOMAIN proj.tree :
       /\ IsFinite(proj.tree[i].value) /\ proj.tree[i].value.n > 0
       /\ SelectedMeasure(raw, proj.tree[i].raw, proj.metric, proj.geo) = proj.tree[i].value
  /\ \A i \in DOMAIN proj.view :
       /\ IsFinite(proj.view[i].value) /\ proj.view[i].value.n > 0
       /\ SelectedMeasure(raw, proj.view[i].raw, proj.metric, proj.geo) = proj.view[i].value

\* a projection that kept a tile and dropped a node of the level whose
\* measure is +Infinity
C10_Witness ==
  /\ proj.level >= 0
  /\ Len(proj.tree) >= 1
  /\ Len(proj.view) >= 1
  /\ \E i \in DOMAIN collectAtLevel(raw, proj.focus, proj.level) :
       SelectedMeasure(raw, collectAtLevel(raw, proj.focus, proj.level)[i],
                       proj.metric, proj.geo) = PosInf

RECURSIVE InSubtree(_, _, _)
\* r is the node focus or lies below it
InSubtree(ds, focus, r) ==
  \/ r = focus
  \/ \E i \in DOMAIN KidsOf(ds, focus) : InSubtree(ds, KidsOf(ds, focus)[i], r)

\* the nodes of level d in the subtree of focus whose selected measure is a
\* finite number > 0
PositiveAt(ds, focus, d, m, geo) ==
  {r \in NodeIds(ds) \cup {makeSyntheticRoot} :
     /\ InSubtree(ds, focus, r)
     /\ LevelOf(ds, r) = d
     /\ r # makeSyntheticRoot
     /\ LET v == IF m = "global" THEN ds.glob[r]
                 ELSE IF geo = NoGeo \/ geo = <<>> THEN Undef
                 ELSE IF m = "country" THEN Lookup(ds.country[r], geo)
                 ELSE Lookup(ds.state_us[r], geo)
        IN v.t = "num" /\ v.n > 0}

\* C11: for target depth d, the source node of every tile of projectLevel
\* and of buildView has depth d and lies in the subtree of the focus node
\* (the focus node included), and every such node with a finite measure > 0
\* gives exactly one tile.
C11_TilesAreLevelNodesOfSubtree ==
  /\ \A i \in DOMAIN proj.tree :
       proj.tree[i].raw \in PositiveAt(raw, proj.focus, proj.level, proj.metric, proj.geo)
  /\ \A i \in DOMAIN proj.view :
       proj.view[i].raw \in PositiveAt(raw, proj.focus, proj.level, proj.metric, proj.geo)
  /\ \A r \in PositiveAt(raw, proj.focus, proj.level, proj.metric, proj.geo) :
       /\ Cardinality({i \in DOMAIN proj.tree : proj.tree[i].raw = r}) = 1
       /\ Cardinality({i \in DOMAIN proj.view : proj.view[i].raw = r}) = 1

\* a projection from a focus node that is itself the tile, while another
\* node of the same depth with a measure > 0 lies outside its subtree
C11_Witness ==
  /\ proj.level >= 0
  /\ proj.focus # makeSyntheticRoot
  /\ Len(proj.tree) = 1
  /\ Len(proj.view) = 1
  /\ proj.tree[1].raw = proj.focus
  /\ proj.view[1].raw = proj.focus
  /\ PositiveAt(raw, makeSyntheticRoot, proj.level, proj.metric, proj.geo) # {proj.focus}

\* C12: a tile of a view built for target depth d is drillable (it gets the
\* click handler) if and only if its source node has a child of depth
\* d - 1, which is also what canDrillToNextLevel answers; at target depth 0
\* no tile is drillable.
C12_DrillableIffChildBelow ==
  /\ \A i \in DOMAIN proj.view :
       /\ proj.view[i].drill
            <=> \E k \in DOMAIN KidsOf(raw, proj.view[i].raw) :
                  LevelOf(raw, KidsOf(raw, proj.view[i].raw)[k]) = proj.level - 1
       /\ proj.view[i].drill <=> canDrillToNextLevel(raw, proj.view[i].raw, proj.level)
       /\ proj.level = 0 => ~proj.view[i].drill
  /\ \A i \in DOMAIN proj.tree :
       proj.level = 0 => ~canDrillToNextLevel(raw, proj.tree[i].raw, proj.level)

\* a view of depth > 0 with a drillable tile next to one that is not
C12_Witness ==
  /\ proj.level > 0
  /\ \E i \in DOMAIN proj.view : proj.view[i].drill
  /\ \E i \in DOMAIN proj.view : ~proj.view[i].drill

\* the area of a tile's rectangle with the half inner padding on each side
\* given back
PaddedArea(r) ==
  RMul(RAdd(RSub(r.x1, r.x0), RInt(PaddingInner)), RAdd(RSub(r.y1, r.y0), RInt(PaddingInner)))

RECURSIVE SumOwnValues(_, _)
\* the sum of the own values of the tiles i.. of a layout
SumOwnValues(children, i) ==
  IF i > Len(children) THEN 0 ELSE children[i].data.value.n + SumOwnValues(children, i + 1)

\* the share of the padded canvas each tile has is the share of its own
\* value in the sum of the tile values of the frame
AreasProportional(layout) ==
  \A i \in DOMAIN layout.children :
    RMul(PaddedArea(layout.children[i].rect), RInt(SumOwnValues(layout.children, 1)))
      = RInt(layout.children[i].data.value.n * (W + PaddingInner) * (H + PaddingInner))

\* C13: in every non-empty frame the area of each tile's rectangle is
\* proportional to the tile's own value relative to the sum of the values
\* of the frame's tiles, for drillable and non-drillable tiles alike.
C13_AreaProportionalToValue ==
  \A g \in DOMAIN closures : \A k \in DOMAIN closures[g].stack :
    AreasProportional(closures[g].stack[k].layout)

\* the measure the selector picks for node r, read off the data: undefined
\* for the synthetic root, without a geo code or without the key
StoredMeasure(ds, r, m, geo) ==
  IF r = makeSyntheticRoot THEN Undef
  ELSE IF m = "global" THEN ds.glob[r]
  ELSE IF geo = NoGeo \/ geo = <<>> THEN Undef
  ELSE IF geo \notin DOMAIN ds.country[r] THEN Undef
  ELSE IF m = "country" THEN ds.country[r][geo]
  ELSE ds.state_us[r][geo]

\* C14: both extractValue return a finite number for every node and
\* selector: the selected measure when it is present and finite, else 0
\* (node without measures, key missing, stored value not finite, country or
\* state_us without a geo code).
C14_ExtractValueFinite ==
  LET v == StoredMeasure(raw, proj.focus, proj.metric, proj.geo)
  IN /\ proj.value = (IF v.t = "num" THEN v ELSE Num(0))
     /\ proj.valueToTree = (IF v.t = "num" THEN v ELSE Num(0))

\* no node of the hierarchy has a measure for the selector m, geo
NoData(m, geo) == \A r \in NodeIds(raw) : StoredMeasure(raw, r, m, geo) = Undef

\* C15: when no node has data for the geography just selected, projectLevel
\* and buildView return no tile for any focus node and depth, and the empty
\* frame is a valid state: every frame of the effect run is built and laid
\* out with no tile, no rendered tile has a click handler, a background
\* click on the one-frame stack is ignored, and from any empty current
\* frame with a parent a background click still pops the stack and starts
\* the drill-up.
C15_EmptyFrameValid ==
  /\ (lastEvent.type \in {"metric", "geo"} /\ NoData(metric, geoCode))
     => \A focus \in NodeIds(raw) \cup {makeSyntheticRoot}, level \in ProjLevels :
          /\ buildView(raw, focus, level, metric, geoCode) = <<>>
          /\ projectLevel(raw, focus, level, metric, geoCode) = <<>>
  /\ \A g \in DOMAIN closures :
       NoData(closures[g].metric, closures[g].geo)
       => /\ Len(closures[g].stack) = 1
          /\ closures[g].current.layout.children = <<>>
          /\ closures[g].current.layout.level = startLevel
          /\ \A k \in DOMAIN dom[closures[g].svg] :
               dom[closures[g].svg][k].gen = g
               => \A i \in DOMAIN dom[closures[g].svg][k].layout.children :
                    ~HasClickHandler(dom[closures[g].svg][k].layout.children[i])
          /\ (lastEvent.type = "bg" /\ lastEvent.gen = g)
             => (closures[g] = lastEvent.pre[1] /\ lastEvent.tr = 0)
  /\ (/\ lastEvent.type = "bg"
      /\ lastEvent.pre[1].current.layout.children = <<>>
      /\ Len(lastEvent.pre[1].stack) > 1)
     => /\ closures[lastEvent.gen].stack = Front(lastEvent.pre[1].stack)
        /\ lastEvent.tr > 0
        /\ \E i \in DOMAIN pending : pending[i].id = lastEvent.tr /\ pending[i].kind = "out"

\* a background click handled on the empty frame shown for country "ZZ"
C15_Witness ==
  /\ lastEvent.type = "bg"
  /\ closures[lastEvent.gen].metric = "country"
  /\ closures[lastEvent.gen].geo = <<"Z", "Z">>
  /\ NoData("country", <<"Z", "Z">>)
  /\ closures[lastEvent.gen].current.layout.children = <<>>
  /\ \E r \in NodeIds(raw) : StoredMeasure(raw, r, "country", US) # Undef

\* C16: when the "end" listener of a drill-down or drill-up runs, every
\* overlay rectangle, positioned through the camera domain the animation
\* ends on, has the x, y, width and height that the swap gives the same
\* tile in the full-scale render of the frame.
C16_OverlayMatchesSwap ==
  (lastEvent.type = "end" /\ lastEvent.acc)
  => lastEvent.t[1].ovEnd = position(lastEvent.t[1].frame.layout, fullRect)

\* the element of the svg with the given id, as a sequence of at most one
ElementOf(svg, id) == SelectSeq(dom[svg], LAMBDA e : e.id = id)

\* a second call of the packer on the inputs of frame f under the selector
\* of closure c
LayoutAgain(f, c) ==
  layoutOneLevel(buildView(raw, f.focus, f.level, c.metric, c.geo), f.level, W, H)

C18_NoDrillDownDuringAnimation ==
  (lastEvent.type = "tile" /\ lastEvent.acc) => ~InFlight

\* the canvas rectangle 0..W x 0..H
FullCanvas == [x0 |-> <<0, 1>>, y0 |-> <<0, 1>>, x1 |-> <<W, 1>>, y1 |-> <<H, 1>>]

\* C19: right after TreeMap is mounted, and after every effect run that a
\* change of the metric or the geo code causes, the stack has one frame, which
\* is the current one; its focus is the synthetic root, of depth 3 and with
\* the top-level nodes of the hierarchy as children; its depth is 2; its
\* enteredRect is the full canvas, and the camera domain is the full canvas.
C19_InitialState ==
  (lastEvent.type \in {"mount", "metric", "geo"} /\ lastEvent.acc)
  => /\ lastEvent.gen = Live
     /\ Len(closures[Live].stack) = 1
     /\ closures[Live].current = closures[Live].stack[1]
     /\ closures[Live].stack[1].focus = makeSyntheticRoot
     /\ LevelOf(raw, closures[Live].stack[1].focus) = 3
     /\ KidsOf(raw, closures[Live].stack[1].focus) = raw.top
     /\ closures[Live].stack[1].level = 2
     /\ closures[Live].stack[1].enteredRect = FullCanvas
     /\ closures[Live].cam = FullCanvas

\* a reset while the run before was drilled down with its camera on a tile
C19_Witness ==
  /\ lastEvent.type \in {"metric", "geo"}
  /\ lastEvent.acc
  /\ Live >= 2
  /\ Len(closures[Live - 1].stack) >= 2
  /\ closures[Live - 1].cam # FullCanvas
  /\ closures[Live].cam = FullCanvas

\* the groups of kind kind among the children of the live <svg>
GroupsOf(kind) == SelectSeq(dom[LiveSvg], LAMBDA e : e.kind = kind)

\* C20: whenever no transition is left on the live <svg>, exactly one tile
\* group is rendered there, the base group of the closure, showing the layout
\* of the top-of-stack frame under the full-canvas camera and taking pointer
\* events, and no overlay group remains.
C20_OneBaseGroupAtRest ==
  (\A i \in DOMAIN pending : pending[i].svg # LiveSvg)
  => /\ Len(GroupsOf("base")) = 1
     /\ GroupsOf("overlay") = <<>>
     /\ \A k \in DOMAIN GroupsOf("base") :
          /\ GroupsOf("base")[k].id = closures[Live].base
          /\ GroupsOf("base")[k].pe
          /\ closures[Live].stack # <<>>
             => GroupsOf("base")[k].layout = Last(closures[Live].stack).layout
     /\ closures[Live].cam = FullCanvas

\* the "end" listener of transition id has run and left its frame on top of
\* the stack, as the current frame and in the base group
Committed(id) ==
  /\ lastEvent.type = "end"
  /\ lastEvent.acc
  /\ lastEvent.tr = id
  /\ closures[lastEvent.gen].stack # <<>>
  /\ Last(closures[lastEvent.gen].stack) = lastEvent.t[1].frame
  /\ closures[lastEvent.gen].current = lastEvent.t[1].frame
  /\ \E k \in DOMAIN dom[lastEvent.t[1].svg] :
       /\ dom[lastEvent.t[1].svg][k].id = closures[lastEvent.gen].base
       /\ dom[lastEvent.t[1].svg][k].layout = lastEvent.t[1].frame.layout

\* C21: every tile click that zoomin accepts leads to the commit of its
\* drill-down (the frame pushed, current and rendered), unless the metric
\* or the geo code changes, whatever clicks arrive in the meantime.
C21_AcceptedDrillDownCommits ==
  \A id \in 1..MaxTransitions :
    (lastEvent.type = "tile" /\ lastEvent.acc /\ lastEvent.tr = id /\ Live = 1)
    ~> (Committed(id) \/ Live > 1)

\* the closure g has a transition whose "end" listener is still to run
Animating(g) ==
  \E i \in DOMAIN pending :
    pending[i].gen = g /\ pending[i].state = "running" /\ pending[i].cb

\* C22: whenever no drill animation of an effect run is in flight, its
\* camera domain is the full canvas [0, W] x [0, H]: the camera is off the
\* full canvas only between the start of an animation and the "end"
\* listener.
C22_CameraFullAtRest ==
  \A g \in DOMAIN closures : ~Animating(g) => closures[g].cam = FullCanvas

\* an "end" listener has brought the camera back from a clicked rectangle
\* and no animation is left
C22_Witness ==
  /\ lastEvent.type = "end"
  /\ lastEvent.acc
  /\ lastEvent.t[1].kind = "in"
  /\ lastEvent.t[1].frame.enteredRect # FullCanvas
  /\ pending = <<>>
  /\ closures[lastEvent.gen].cam = FullCanvas

\* frame c was entered from frame p: through a drillable tile of p's layout
EnteredFrom(c, p) ==
  /\ c.level = p.level - 1
  /\ \E i \in DOMAIN p.layout.children :
       /\ p.layout.children[i].data.drill
       /\ p.layout.children[i].data.raw = c.focus
       /\ p.layout.children[i].rect = c.enteredRect

\* C23: in every state the stack of every effect run is well formed: its
\* bottom frame is (synthetic root, startLevel, full canvas) and every frame
\* above the bottom is one depth below the frame under it, has the source
\* node of a drillable tile of that frame's layout as focus and that tile's
\* rectangle as enteredRect.
C23_StackWellFormed ==
  \A g \in DOMAIN closures :
    /\ closures[g].stack # <<>>
    /\ closures[g].stack[1].focus = makeSyntheticRoot
    /\ closures[g].stack[1].level = startLevel
    /\ closures[g].stack[1].enteredRect = FullCanvas
    /\ \A k \in 2..Len(closures[g].stack) :
         EnteredFrom(closures[g].stack[k], closures[g].stack[k - 1])

\* a rectangle of strictly positive width and height
PositiveRect(r) == RLt(r.x0, r.x1) /\ RLt(r.y0, r.y1)

\* C24: every frame on the stack has an enteredRect with x1 > x0 and
\* y1 > y0, and so has the camera domain, which zoomin and zoomout set from
\* such a rectangle.
C24_EnteredRectPositive ==
  \A g \in DOMAIN closures :
    /\ \A k \in DOMAIN closures[g].stack : PositiveRect(closures[g].stack[k].enteredRect)
    /\ PositiveRect(closures[g].cam)

\* the depths a frame may have
Depths == 0..startLevel

\* C25: no frame with a depth below 0 or above 2 is ever built, pushed or
\* made current: every frame on a stack, every current frame and every frame
\* built by zoomin or taken by zoomout for a transition has a depth in
\* 0..2, and a tile click on a frame of depth 0 is never accepted.
C25_DepthWithinRange ==
  /\ \A g \in DOMAIN closures :
       /\ closures[g].current.level \in Depths
       /\ \A k \in DOMAIN closures[g].stack : closures[g].stack[k].level \in Depths
  /\ \A i \in DOMAIN pending : pending[i].frame.level \in Depths
  /\ (lastEvent.type = "tile" /\ lastEvent.pre[1].current.level = 0) => ~lastEvent.acc

\* a tile of a frame of depth 0 was clicked
C25_Witness ==
  /\ lastEvent.type = "tile"
  /\ lastEvent.pre[1].current.level = 0
  /\ Len(closures[lastEvent.gen].stack) = 3
  /\ closures[lastEvent.gen].current.level = 0

\* the events of the history of TreemapMVP, oldest first
MvpEvs == [i \in DOMAIN mvp.hist |-> mvp.hist[i].ev]

\* the names of the tiles of TreemapMVP for focus and level
MvpTileNames(focus, level) ==
  [i \in DOMAIN MvpTiles(focus, level) |-> MvpTiles(focus, level)[i].name]

\* C26: in TreemapMVP with initialLevel = 2, a drill-down from (F, L) followed
\* by one go-up ends on (F, L) with the tiles of (F, L), and on the chain
\* A > B > C two drill-downs followed by two go-ups end on the tiles [A] at
\* level 2.
C26_MvpDownUpRestores ==
  mvp.initialLevel = 2
  => /\ \A n \in 3..Len(mvp.hist) :
          (n = Len(mvp.hist) /\ mvp.hist[n].ev = "up" /\ mvp.hist[n - 1].ev = "drill")
          => /\ mvp.focusRaw = mvp.hist[n - 2].focus
             /\ mvp.level = mvp.hist[n - 2].level
             /\ MvpTileNames(mvp.focusRaw, mvp.level)
                  = MvpTileNames(mvp.hist[n - 2].focus, mvp.hist[n - 2].level)
     /\ (raw = DataChain /\ MvpEvs = <<"mount", "drill", "drill", "up", "up">>)
        => mvp.level = 2 /\ MvpTileNames(mvp.focusRaw, mvp.level) = <<"A">>

C28_BackgroundBelowGroups ==
  \A v \in DOMAIN dom :
    \A k \in DOMAIN dom[v], j \in DOMAIN dom[v] :
      (dom[v][k].kind = "bg" /\ dom[v][j].kind \in {"base", "overlay"}) => k < j

\* the parent of the raw node r
ParentOf(ds, r) ==
  CHOOSE p \in NodeIds(ds) \cup {makeSyntheticRoot} :
    \E i \in DOMAIN KidsOf(ds, p) : KidsOf(ds, p)[i] = r

\* the raw nodes from the synthetic root down to r
RECURSIVE PathTo(_, _)
PathTo(ds, r) ==
  IF r = makeSyntheticRoot THEN <<r>> ELSE Append(PathTo(ds, ParentOf(ds, r)), r)

\* the names of path joined by "/"
RECURSIVE JoinNames(_, _)
JoinNames(ds, path) ==
  IF Len(path) = 1 THEN Chars(NameOf(ds, path[1]))
  ELSE Chars(NameOf(ds, Head(path))) \o <<"/">> \o JoinNames(ds, Tail(path))

\* the ancestor path of focus, with the synthetic root or from the top
\* level node on
PathTexts(ds, focus) ==
  {JoinNames(ds, PathTo(ds, focus))} \cup
  (IF focus = makeSyntheticRoot THEN {} ELSE {JoinNames(ds, Tail(PathTo(ds, focus)))})

\* C29: the header of the tile group of the live frame shows the names of
\* the ancestors of the current focus node, from the top of the hierarchy
\* down to the focus node, joined by a separator.
C29_HeaderShowsAncestorPath ==
  \A k \in DOMAIN dom[LiveSvg] :
    LET e == dom[LiveSvg][k]
    IN (e.kind = "base" /\ e.id = closures[Live].base /\ ~Animating(Live))
       => \E text \in PathTexts(raw, closures[Live].current.focus) : e.header = <<text>>

\* a line without its ellipsis
StripEllipsis(line) ==
  IF line # <<>> /\ line[Len(line)] = Ellipsis THEN SubSeq(line, 1, Len(line) - 1) ELSE line

\* the words the lines show
RECURSIVE WordsShown(_)
WordsShown(lines) ==
  IF lines = <<>> THEN <<>>
  ELSE NonEmptyWords(Split(StripEllipsis(Head(lines)))) \o WordsShown(Tail(lines))

AtMostTwoLines(lines) == Len(lines) <= 2

LinesFit(lines, maxChars) ==
  \A i \in DOMAIN lines : Len(StripEllipsis(lines[i])) <= maxChars

EllipsisWhenCut(lines, text) ==
  WordsShown(lines) # NonEmptyWords(Split(text))
    => (lines # <<>> /\ lines[Len(lines)] # StripEllipsis(lines[Len(lines)]))

\* the parts of C30, for the wrapLines of either file
WrapTwoLines ==
  wrap.called => (AtMostTwoLines(wrap.lines) /\ AtMostTwoLines(wrap.linesTreeMap))
WrapCut == wrap.called => EllipsisWhenCut(wrap.lines, wrap.text)
WrapCutTreeMap == wrap.called => EllipsisWhenCut(wrap.linesTreeMap, wrap.text)
\* a line is too long only by holding one word longer than maxChars
WrapFitsButLongWords ==
  \A lines \in {wrap.lines, wrap.linesTreeMap} : \A i \in DOMAIN lines :
    Len(StripEllipsis(lines[i])) > MaxChars(wrap.w, wrap.fontPx)
      => Len(NonEmptyWords(Split(StripEllipsis(lines[i])))) = 1

\* C30: for every label text and tile width, wrapLines with maxLines = 2
\* returns at most 2 lines, each of at most maxChars characters (not
\* counting an ellipsis), and whenever a word of the label is left out the
\* last returned line ends with an ellipsis.
C30_WrapLinesFitsTwoLines ==
  \A lines \in {wrap.lines, wrap.linesTreeMap} :
    wrap.called =>
      /\ AtMostTwoLines(lines)
      /\ LinesFit(lines, MaxChars(wrap.w, wrap.fontPx))
      /\ EllipsisWhenCut(lines, wrap.text)

=============================================================================
